---- MODULE Spec2Model ----
(***************************************************************************)
(* Model of option_pnl_webapp.py: the Dash callback update_graph, which    *)
(* turns the form inputs into a P&L time series (exponential decay of the  *)
(* premium floored at the intrinsic value), a candlestick figure fetched   *)
(* from the market-data source, and the adjusted-price text.               *)
(*                                                                         *)
(* Python floats are modelled as exact rationals plus the IEEE specials    *)
(* nan, inf and -inf that numpy's division by zero produces.  np.exp is    *)
(* modelled by a table of its values rounded to four decimals.             *)
(***************************************************************************)
EXTENDS Integers, Sequences, FiniteSets, TLC

VARIABLES inp, out, req, sweep

vars == <<inp, out, req, sweep>>

(***************************************************************************)
(* Bounds of the model.                                                    *)
(***************************************************************************)
\* longest holding period, in days, between date_purchased and expiry_date
MaxSpan == 4

(***************************************************************************)
(* Floating-point numbers: finite rationals n/d in lowest terms, d > 0,    *)
(* and the IEEE specials.                                                  *)
(***************************************************************************)
RECURSIVE GCD(_, _)
GCD(a, b) == IF b = 0 THEN a ELSE GCD(b, a % b)

Abs(x) == IF x < 0 THEN -x ELSE x

Rat(n, d) ==
    LET s == IF d < 0 THEN -1 ELSE 1
        g == GCD(Abs(n), Abs(d))
    IN  [k |-> "fin", n |-> (s * n) \div g, d |-> (s * d) \div g]

RInt(i) == [k |-> "fin", n |-> i, d |-> 1]
NaN == [k |-> "nan", n |-> 0, d |-> 1]
PosInf == [k |-> "inf", n |-> 1, d |-> 1]
NegInf == [k |-> "ninf", n |-> -1, d |-> 1]
Zero == RInt(0)

IsFinite(a) == a.k = "fin"

\* sign of a float, specials included (nan has none)
Sign(a) == IF a.n > 0 THEN 1 ELSE IF a.n < 0 THEN -1 ELSE 0

RAdd(a, b) == Rat(a.n * b.d + b.n * a.d, a.d * b.d)
RSub(a, b) == Rat(a.n * b.d - b.n * a.d, a.d * b.d)
RNeg(a) == Rat(-a.n, a.d)
RAbs(a) == Rat(Abs(a.n), a.d)
RLt(a, b) == a.n * b.d < b.n * a.d
RLe(a, b) == a.n * b.d <= b.n * a.d

\* IEEE multiplication: nan is absorbing, inf * 0 is nan
RMul(a, b) ==
    IF a.k = "nan" \/ b.k = "nan" THEN NaN
    ELSE IF IsFinite(a) /\ IsFinite(b) THEN Rat(a.n * b.n, a.d * b.d)
    ELSE IF Sign(a) * Sign(b) = 0 THEN NaN
    ELSE IF Sign(a) * Sign(b) > 0 THEN PosInf ELSE NegInf

\* numpy true division of finite operands: x / 0 is nan, inf or -inf (a
\* RuntimeWarning, not an exception)
RDiv(a, b) ==
    IF b.n = 0
    THEN IF a.n = 0 THEN NaN ELSE IF a.n > 0 THEN PosInf ELSE NegInf
    ELSE Rat(a.n * b.d, a.d * b.n)

\* Python max(a, b) and np.maximum(a, b) on finite operands
RMax(a, b) == IF RLt(a, b) THEN b ELSE a
RMin(a, b) == IF RLt(b, a) THEN b ELSE a

(***************************************************************************)
(* datetime.date: fromisoformat, toordinal, fromordinal, date + timedelta. *)
(***************************************************************************)
IsLeap(y) == y % 4 = 0 /\ (y % 100 # 0 \/ y % 400 = 0)

DaysInMonth(y, m) ==
    IF m = 2 THEN (IF IsLeap(y) THEN 29 ELSE 28)
    ELSE IF m \in {4, 6, 9, 11} THEN 30 ELSE 31

DaysBeforeYear(y) ==
    365 * (y - 1) + ((y - 1) \div 4) - ((y - 1) \div 100) + ((y - 1) \div 400)

RECURSIVE DaysBeforeMonth(_, _)
DaysBeforeMonth(y, m) ==
    IF m = 1 THEN 0 ELSE DaysBeforeMonth(y, m - 1) + DaysInMonth(y, m - 1)

\* date.toordinal(): day 1 is 0001-01-01
ToOrdinal(dt) == DaysBeforeYear(dt.y) + DaysBeforeMonth(dt.y, dt.m) + dt.d

RECURSIVE YearOf(_, _)
YearOf(n, y) == IF n <= DaysBeforeYear(y + 1) THEN y ELSE YearOf(n, y + 1)

RECURSIVE MonthOf(_, _, _)
MonthOf(r, y, m) ==
    IF r <= DaysBeforeMonth(y, m) + DaysInMonth(y, m) THEN m ELSE MonthOf(r, y, m + 1)

\* date.fromordinal(n), for n no earlier than 2001-01-01
FromOrdinal(n) ==
    LET y == YearOf(n, 2001)
        r == n - DaysBeforeYear(y)
        m == MonthOf(r, y, 1)
    IN  [y |-> y, m |-> m, d |-> r - DaysBeforeMonth(y, m)]

\* date + timedelta(days=i)
PlusDays(dt, i) == FromOrdinal(ToOrdinal(dt) + i)

(***************************************************************************)
(* np.exp(-0.1 * i), rounded to four decimals.                             *)
(***************************************************************************)
ExpTable == <<10000, 9048, 8187, 7408, 6703, 6065, 5488, 4966, 4493, 4066, 3679, 3329>>

ExpNegTenth(i) == Rat(ExpTable[i + 1], 10000)

(***************************************************************************)
(* ISO calendar dates as the date pickers send them: the eight digits of   *)
(* 'YYYY-MM-DD'.                                                           *)
(***************************************************************************)
\* str(date)
IsoFormat(dt) ==
    <<dt.y \div 1000, (dt.y \div 100) % 10, (dt.y \div 10) % 10, dt.y % 10,
      dt.m \div 10, dt.m % 10, dt.d \div 10, dt.d % 10>>

\* datetime.date.fromisoformat
FromIsoFormat(s) ==
    [y |-> 1000 * s[1] + 100 * s[2] + 10 * s[3] + s[4],
     m |-> 10 * s[5] + s[6],
     d |-> 10 * s[7] + s[8]]

(***************************************************************************)
(* The callback's inputs.  A numeric input, an option type or a date that  *)
(* the form leaves empty reaches the callback as None: its name is in      *)
(* inp.missing and its field holds a filler that is never read as a value. *)
(***************************************************************************)
Tickers == {"AAPL"}
Underlyings == <<RInt(40), RInt(100)>>
Premiums == <<RInt(0), RInt(2), RInt(5)>>
ContractSizes == <<RInt(1), RInt(2), RInt(-1)>>
OptionTypes == <<"call", "put">>
Deltas == {Rat(50, 100)}
Thetas == {Rat(2, 100), Rat(-2, 100)}
PurchaseDates == <<[y |-> 2024, m |-> 2, d |-> 27], [y |-> 2023, m |-> 12, d |-> 30]>>
HypoChanges == <<RInt(-10), RInt(0), RInt(10)>>
Spans == [i \in 1 .. MaxSpan + 2 |-> i - 2]

Range(s) == {s[i] : i \in DOMAIN s}

Fields ==
    {"ticker", "underlying", "premium", "contract_size", "option_type", "delta",
     "theta", "date_purchased", "expiry_date", "hypo_change"}

\* the values field f takes when the set m of fields is missing
Pick(f, m, S) == IF f \in m THEN {CHOOSE v \in S : TRUE} ELSE S

InputsMissing(m) ==
    {[ticker |-> t, underlying |-> u, premium |-> p, contract_size |-> c,
      option_type |-> o, delta |-> dl, theta |-> th,
      date_purchased |-> IsoFormat(dp), expiry_date |-> IsoFormat(PlusDays(dp, sp)),
      hypo_change |-> h, missing |-> m] :
        t \in Pick("ticker", m, Tickers),
        u \in Pick("underlying", m, Range(Underlyings)),
        p \in Pick("premium", m, Range(Premiums)),
        c \in Pick("contract_size", m, Range(ContractSizes)),
        o \in Pick("option_type", m, Range(OptionTypes)),
        dl \in Pick("delta", m, Deltas),
        th \in Pick("theta", m, Thetas),
        dp \in Pick("date_purchased", m, Range(PurchaseDates)),
        sp \in Pick("expiry_date", m, Range(Spans)),
        h \in Pick("hypo_change", m, Range(HypoChanges))}

\* every input present, or exactly one of them None
Inputs == InputsMissing({}) \cup UNION {InputsMissing({f}) : f \in Fields}

IsNone(in, f) == f \in in.missing

(***************************************************************************)
(* update_graph, line by line.  Each local of the function is an operator  *)
(* of the inputs.                                                          *)
(***************************************************************************)
\* line 87: `not date_purchased or not expiry_date`
DatesAbsent(in) == IsNone(in, "date_purchased") \/ IsNone(in, "expiry_date")

\* lines 90-91
start_date(in) == FromIsoFormat(in.date_purchased)
end_date(in) == FromIsoFormat(in.expiry_date)

\* line 92
days_to_expiry(in) == ToOrdinal(end_date(in)) - ToOrdinal(start_date(in))

\* the slip range(n + 1): the expiry day included
market_days_inclusive(in) ==
    [i \in 1 .. days_to_expiry(in) + 1 |-> PlusDays(FromIsoFormat(in.date_purchased), i - 1)]

\* line 93: range(n) is empty for n <= 0
market_days(in) ==
    [i \in 1 .. days_to_expiry(in) |-> PlusDays(start_date(in), i - 1)]

\* line 95
adjusted_price(in) ==
    RMul(in.underlying, RAdd(RInt(1), RDiv(in.hypo_change, RInt(100))))

\* line 96
option_multiplier == 100

\* line 97
total_contracts(in) == RMul(in.contract_size, RInt(option_multiplier))

\* line 100
theta(in) == RNeg(RAbs(in.theta))

\* the slip of keeping the linear theta decay of the earlier model
extrinsic_value_thetaDecay(in) ==
    [i \in 1 .. days_to_expiry(in) |->
        RAdd(RMul(in.premium, ExpNegTenth(i - 1)), RMul(theta(in), RInt(i - 1)))]

\* line 104: np.arange(n) is empty for n <= 0
extrinsic_value(in) ==
    [i \in 1 .. days_to_expiry(in) |-> RMul(in.premium, ExpNegTenth(i - 1))]

\* the slip of swapping the call and put branches
intrinsic_value_swapped(in) ==
    IF ~IsNone(in, "option_type") /\ in.option_type = "call"
    THEN RMax(RSub(in.underlying, adjusted_price(in)), Zero)
    ELSE RMax(RSub(adjusted_price(in), in.underlying), Zero)

\* line 105: any option type other than 'call', None included, is a put
intrinsic_value(in) ==
    IF ~IsNone(in, "option_type") /\ in.option_type = "call"
    THEN RMax(RSub(adjusted_price(in), in.underlying), Zero)
    ELSE RMax(RSub(in.underlying, adjusted_price(in)), Zero)

\* the slip np.minimum for np.maximum
option_value_minimum(in) ==
    LET iv == intrinsic_value(in)
        ev == extrinsic_value(in)
    IN  [i \in DOMAIN ev |-> RMin(iv, ev[i])]

\* line 106
option_value(in) ==
    LET iv == intrinsic_value(in)
        ev == extrinsic_value(in)
    IN  [i \in DOMAIN ev |-> RMax(iv, ev[i])]

\* the slip of subtracting the value from the cost
estimated_pnl_flipped(in) ==
    LET ov == option_value(in)
        tc == total_contracts(in)
    IN  [i \in DOMAIN ov |-> RSub(RMul(in.premium, tc), RMul(ov[i], tc))]

\* line 108
estimated_pnl(in) ==
    LET ov == option_value(in)
        tc == total_contracts(in)
    IN  [i \in DOMAIN ov |-> RSub(RMul(ov[i], tc), RMul(in.premium, tc))]

\* the slip of dividing by the premium of contract_size shares, not of
\* total_contracts shares
pnl_percentage_perContract(in) ==
    LET pnl == estimated_pnl(in)
        paid == RMul(in.premium, in.contract_size)
    IN  [i \in DOMAIN pnl |-> RMul(RDiv(pnl[i], paid), RInt(100))]

\* line 109
pnl_percentage(in) ==
    LET pnl == estimated_pnl(in)
        paid == RMul(in.premium, total_contracts(in))
    IN  [i \in DOMAIN pnl |-> RMul(RDiv(pnl[i], paid), RInt(100))]

\* lines 95-104: the first statement that raises, in program order.  None in
\* arithmetic and abs(None) raise TypeError; np.linspace(0, 3, n) raises
\* ValueError for n < 0.  delta is never read.
Exception(in) ==
    IF IsNone(in, "underlying") \/ IsNone(in, "hypo_change") THEN "TypeError"
    ELSE IF IsNone(in, "contract_size") THEN "TypeError"
    ELSE IF IsNone(in, "theta") THEN "TypeError"
    ELSE IF days_to_expiry(in) < 0 THEN "ValueError"
    ELSE IF IsNone(in, "premium") THEN "TypeError"
    ELSE "none"

\* the locals of update_graph once line 109 has run
Locals(in) ==
    [days_to_expiry |-> days_to_expiry(in), market_days |-> market_days(in),
     adjusted_price |-> adjusted_price(in), total_contracts |-> total_contracts(in),
     theta |-> theta(in), extrinsic_value |-> extrinsic_value(in),
     intrinsic_value |-> intrinsic_value(in), option_value |-> option_value(in),
     estimated_pnl |-> estimated_pnl(in), pnl_percentage |-> pnl_percentage(in)]

\* the slip of one module-level figure that every call adds its traces to
SharedFigure ==
    IF \E s \in DOMAIN req : req[s].f.pnl_fig.traces # <<>>
    THEN [traces |-> req[CHOOSE s \in DOMAIN req : req[s].f.pnl_fig.traces # <<>>].f.pnl_fig.traces,
          title |-> <<>>]
    ELSE [traces |-> <<>>, title |-> <<>>]

\* go.Figure()
Figure == [traces |-> <<>>, title |-> <<>>]

\* fig.add_trace(go.Scatter(x, y, name))
AddTrace(fig, name, x, y) ==
    [fig EXCEPT !.traces = Append(@, [name |-> name, x |-> x, y |-> y])]

\* lines 111-120
PnlFigure(l) ==
    [AddTrace(AddTrace(Figure, "Estimated P&L ($)", l.market_days, l.estimated_pnl),
              "P&L (%)", l.market_days, l.pnl_percentage)
        EXCEPT !.title = <<"P&L vs. Market Dates to Expiry">>]

\* lines 122-134: the bare except catches whatever the fetch raises
Candlestick(in, fetch_ok) ==
    IF fetch_ok
    THEN [AddTrace(Figure, "candlestick", <<>>, <<>>)
            EXCEPT !.title = <<IF IsNone(in, "ticker") THEN "None" ELSE in.ticker,
                               "Candlestick Chart">>]
    ELSE [Figure EXCEPT !.title = <<"Stock Data Unavailable">>]

\* '{x:.2f}' of a finite float, in cents
Format2f(a) == (2 * 100 * a.n + a.d) \div (2 * a.d)

\* line 136
AdjustedPriceDisplay(in, l) ==
    [price |-> Format2f(l.adjusted_price), change |-> in.hypo_change]

(***************************************************************************)
(* The frame of one call of update_graph: where it stands (pc), its locals *)
(* and the three values it returns.  pc is "called" on entry, "computed"   *)
(* after line 109, "fetching" after line 120, and at the end "early" (the  *)
(* return of line 88), "raised" (an exception left the function) or        *)
(* "returned" (line 138).  fetched records how the fetch of line 123 went. *)
(***************************************************************************)
NoFigure == [traces |-> <<>>, title |-> <<>>]

NoLocals ==
    [days_to_expiry |-> 0, market_days |-> <<>>, adjusted_price |-> Zero,
     total_contracts |-> Zero, theta |-> Zero, extrinsic_value |-> <<>>,
     intrinsic_value |-> Zero, option_value |-> <<>>, estimated_pnl |-> <<>>,
     pnl_percentage |-> <<>>]

Called ==
    [pc |-> "called", exc |-> "none", fetched |-> "no", l |-> NoLocals,
     pnl_fig |-> NoFigure, candlestick_fig |-> NoFigure,
     display |-> [price |-> 0, change |-> Zero]]

\* lines 87-109
StepCompute(in, f) ==
    IF DatesAbsent(in)
    THEN [f EXCEPT !.pc = "early", !.pnl_fig = Figure, !.candlestick_fig = Figure]
    ELSE IF Exception(in) # "none"
    THEN [f EXCEPT !.pc = "raised", !.exc = Exception(in)]
    ELSE [f EXCEPT !.pc = "computed", !.l = Locals(in)]

\* lines 111-120
StepFigure(in, f) == [f EXCEPT !.pc = "fetching", !.pnl_fig = PnlFigure(f.l)]

\* the slip of no try/except around the fetch
StepFetch_propagates(in, f, fetch_ok) ==
    IF fetch_ok
    THEN [f EXCEPT !.pc = "returned", !.fetched = "ok",
                   !.candlestick_fig = Candlestick(in, TRUE),
                   !.display = AdjustedPriceDisplay(in, f.l)]
    ELSE [f EXCEPT !.pc = "raised", !.exc = "Exception", !.fetched = "failed"]

\* lines 122-138
StepFetch(in, f, fetch_ok) ==
    [f EXCEPT !.pc = "returned",
              !.fetched = IF fetch_ok THEN "ok" ELSE "failed",
              !.candlestick_fig = Candlestick(in, fetch_ok),
              !.display = AdjustedPriceDisplay(in, f.l)]

\* lines 86-138: the whole callback
update_graph(in, fetch_ok) ==
    LET c == StepCompute(in, Called)
    IN  IF c.pc # "computed" THEN c ELSE StepFetch(in, StepFigure(in, c), fetch_ok)

\* PositionInputs and Scenario as the specification requires them
Valid(in) ==
    /\ in.missing = {}
    /\ in.underlying.n > 0
    /\ in.premium.n >= 0
    /\ in.contract_size.n > 0
    /\ in.option_type \in {"call", "put"}
    /\ ToOrdinal(FromIsoFormat(in.expiry_date)) > ToOrdinal(FromIsoFormat(in.date_purchased))

(***************************************************************************)
(* Spec: one evaluation of the callback on inputs drawn from Inputs.       *)
(***************************************************************************)
Slots == {1, 2}

NoInput ==
    [ticker |-> "AAPL", underlying |-> RInt(100), premium |-> RInt(5),
     contract_size |-> RInt(1), option_type |-> "call", delta |-> Rat(50, 100),
     theta |-> Rat(2, 100), date_purchased |-> IsoFormat(PurchaseDates[1]),
     expiry_date |-> IsoFormat(PurchaseDates[1]), hypo_change |-> Zero,
     missing |-> Fields]

NoReq == [s \in Slots |-> [inp |-> NoInput, f |-> Called]]
NoSweep == [k |-> 0, rose |-> FALSE, fell |-> FALSE, done |-> FALSE]

Init ==
    /\ inp \in Inputs
    /\ out = Called
    /\ req = NoReq
    /\ sweep = NoSweep

Evaluate ==
    /\ out.pc = "called"
    /\ \E fetch_ok \in BOOLEAN : out' = update_graph(inp, fetch_ok)
    /\ UNCHANGED <<inp, req, sweep>>

Next == Evaluate

Spec == Init /\ [][Next]_vars

(***************************************************************************)
(* SpecConc: two requests served at once, each in its own frame, their     *)
(* steps interleaved as the server's threads may interleave them.          *)
(***************************************************************************)
ConcDeltas == {Rat(50, 100), Rat(-30, 100)}
ConcThetas == {Rat(2, 100), Rat(-5, 100)}

ConcInputs ==
    {[ticker |-> "AAPL", underlying |-> RInt(100), premium |-> p,
      contract_size |-> RInt(2), option_type |-> o, delta |-> dl, theta |-> th,
      date_purchased |-> IsoFormat(PurchaseDates[1]),
      expiry_date |-> IsoFormat(PlusDays(PurchaseDates[1], sp)),
      hypo_change |-> RInt(10), missing |-> {}] :
        p \in {RInt(0), RInt(5)}, o \in Range(OptionTypes), dl \in ConcDeltas,
        th \in ConcThetas, sp \in {MaxSpan - 1, MaxSpan}}

InitConc ==
    /\ inp = NoInput
    /\ out = Called
    /\ req \in [Slots -> {[inp |-> in, f |-> Called] : in \in ConcInputs}]
    /\ sweep = NoSweep

Compute(s) ==
    /\ req[s].f.pc = "called"
    /\ req' = [req EXCEPT ![s].f = StepCompute(req[s].inp, @)]
    /\ UNCHANGED <<inp, out, sweep>>

BuildFigure(s) ==
    /\ req[s].f.pc = "computed"
    /\ req' = [req EXCEPT ![s].f = StepFigure(req[s].inp, @)]
    /\ UNCHANGED <<inp, out, sweep>>

Fetch(s) ==
    /\ req[s].f.pc = "fetching"
    /\ \E fetch_ok \in BOOLEAN :
          req' = [req EXCEPT ![s].f = StepFetch(req[s].inp, @, fetch_ok)]
    /\ UNCHANGED <<inp, out, sweep>>

NextConc == \E s \in Slots : Compute(s) \/ BuildFigure(s) \/ Fetch(s)

SpecConc == InitConc /\ [][NextConc]_vars

(***************************************************************************)
(* SpecSweep: the callback evaluated on every combination of the input     *)
(* values in turn, recording whether any valid input made the dollar P&L   *)
(* rise, or fall, from one day to the next.                                *)
(***************************************************************************)
\* the k-th combination of input values, k from 0
SweepInput(k) ==
    LET u == k % Len(Underlyings)
        k1 == k \div Len(Underlyings)
        p == k1 % Len(Premiums)
        k2 == k1 \div Len(Premiums)
        c == k2 % Len(ContractSizes)
        k3 == k2 \div Len(ContractSizes)
        o == k3 % Len(OptionTypes)
        k4 == k3 \div Len(OptionTypes)
        h == k4 % Len(HypoChanges)
        k5 == k4 \div Len(HypoChanges)
        dp == k5 % Len(PurchaseDates)
        sp == k5 \div Len(PurchaseDates)
    IN  [ticker |-> "AAPL", underlying |-> Underlyings[u + 1], premium |-> Premiums[p + 1],
         contract_size |-> ContractSizes[c + 1], option_type |-> OptionTypes[o + 1],
         delta |-> Rat(50, 100), theta |-> Rat(2, 100),
         date_purchased |-> IsoFormat(PurchaseDates[dp + 1]),
         expiry_date |-> IsoFormat(PlusDays(PurchaseDates[dp + 1], Spans[sp + 1])),
         hypo_change |-> HypoChanges[h + 1], missing |-> {}]

SweepSize ==
    Len(Underlyings) * Len(Premiums) * Len(ContractSizes) * Len(OptionTypes)
        * Len(HypoChanges) * Len(PurchaseDates) * Len(Spans)

Rises(y) == \E i \in DOMAIN y : i + 1 \in DOMAIN y /\ RLt(y[i], y[i + 1])
Falls(y) == \E i \in DOMAIN y : i + 1 \in DOMAIN y /\ RLt(y[i + 1], y[i])

InitSweep ==
    /\ inp = NoInput
    /\ out = Called
    /\ req = NoReq
    /\ sweep = NoSweep

SweepEvaluate ==
    /\ sweep.k < SweepSize
    /\ inp' = SweepInput(sweep.k)
    /\ out' = update_graph(inp', TRUE)
    /\ sweep' = [sweep EXCEPT
                    !.k = @ + 1,
                    !.rose = @ \/ (Valid(inp') /\ out'.pc = "returned"
                                     /\ Rises(out'.l.estimated_pnl)),
                    !.fell = @ \/ (Valid(inp') /\ out'.pc = "returned"
                                     /\ Falls(out'.l.estimated_pnl))]
    /\ UNCHANGED req

SweepFinish ==
    /\ sweep.k = SweepSize
    /\ ~sweep.done
    /\ sweep' = [sweep EXCEPT !.done = TRUE]
    /\ UNCHANGED <<inp, out, req>>

NextSweep == SweepEvaluate \/ SweepFinish

SpecSweep == InitSweep /\ [][NextSweep]_vars

(***************************************************************************)
(* Properties.                                                             *)
(***************************************************************************)
Evaluated == out.pc # "called"
Returned == out.pc = "returned"

\* the calendar day after dt, by the calendar's month lengths
NextDay(dt) ==
    IF dt.d < DaysInMonth(dt.y, dt.m) THEN [dt EXCEPT !.d = @ + 1]
    ELSE IF dt.m < 12 THEN [y |-> dt.y, m |-> dt.m + 1, d |-> 1]
    ELSE [y |-> dt.y + 1, m |-> 1, d |-> 1]

DateLt(a, b) ==
    \/ a.y < b.y
    \/ a.y = b.y /\ a.m < b.m
    \/ a.y = b.y /\ a.m = b.m /\ a.d < b.d

\* C1: with premium == 0 and every other input valid, every element of the
\* percent P&L is the designated "undefined" marker, and none is an infinite
\* or NaN value.
C1_PercentUndefinedMarker ==
    (Returned /\ Valid(inp) /\ inp.premium = Zero) =>
        \A i \in DOMAIN out.l.pnl_percentage :
            /\ out.l.pnl_percentage[i].k = "undefined"
            /\ out.l.pnl_percentage[i].k \notin {"nan", "inf", "ninf"}

\* the inputs C2 calls invalid: the dates are given, and the expiry is not
\* after the purchase, or the contract size is negative, or a numeric input
\* is missing
NumericFields ==
    {"underlying", "premium", "contract_size", "delta", "theta", "hypo_change"}

InvalidInput(in) ==
    /\ ~DatesAbsent(in)
    /\ \/ days_to_expiry(in) <= 0
       \/ in.missing \cap NumericFields # {}
       \/ ~IsNone(in, "contract_size") /\ in.contract_size.n < 0

\* C2: every invalid input ends in an explicit rejected result: the callback
\* neither returns a P&L series (not even an empty one) nor raises.
C2_InvalidInputRejected ==
    (Evaluated /\ InvalidInput(inp)) => out.pc \notin {"returned", "raised"}

\* C3: whatever the market-data fetch does, the call returns, with the P&L
\* figure and the adjusted-price text it returns when the fetch succeeds; when
\* the fetch fails the candlestick figure is the placeholder titled
\* 'Stock Data Unavailable'.
C3_FetchFailureContained ==
    [][\A s \in Slots :
          (req[s].f.pc = "fetching" /\ req'[s] # req[s]) =>
              LET good == StepFetch(req[s].inp, req[s].f, TRUE)
                  got == req'[s].f
              IN  /\ got.pc = "returned"
                  /\ got.exc = "none"
                  /\ got.pnl_fig = req[s].f.pnl_fig
                  /\ got.pnl_fig = PnlFigure(Locals(req[s].inp))
                  /\ got.display = AdjustedPriceDisplay(req[s].inp, Locals(req[s].inp))
                  /\ got.l = req[s].f.l
                  /\ got.fetched \in {"ok", "failed"}
                  /\ got.fetched = "ok" => got.candlestick_fig = good.candlestick_fig
                  /\ got.fetched = "failed" =>
                        /\ got.candlestick_fig.title = <<"Stock Data Unavailable">>
                        /\ got.candlestick_fig.traces = <<>>]_vars

C3_Witness ==
    \E s \in Slots :
        /\ req[s].f.pc = "returned"
        /\ req[s].f.fetched = "failed"
        /\ req[s].f.candlestick_fig.title = <<"Stock Data Unavailable">>
        /\ Len(req[s].f.pnl_fig.traces) = 2
        /\ req[s].f.pnl_fig.traces[1].y # <<>>

\* C4: for valid inputs, the option value of every day is at least the
\* intrinsic value of the evaluation.
C4_FloorProperty ==
    (Returned /\ Valid(inp)) =>
        \A i \in DOMAIN out.l.option_value :
            RLe(out.l.intrinsic_value, out.l.option_value[i])

\* a valid evaluation whose option value starts above the intrinsic value and
\* ends on it
C4_Witness ==
    /\ Returned /\ Valid(inp)
    /\ out.l.intrinsic_value.n > 0
    /\ \E i, j \in DOMAIN out.l.option_value :
          /\ RLt(out.l.intrinsic_value, out.l.option_value[i])
          /\ out.l.option_value[j] = out.l.intrinsic_value
          /\ RLt(out.l.extrinsic_value[j], out.l.intrinsic_value)

\* C5: for valid inputs the four series have the same length n, the number
\* of days from date_purchased to expiry_date; dates starts on
\* date_purchased, moves on by one calendar day per index and ends the day
\* before expiry_date.
C5_ParallelSeries ==
    (Returned /\ Valid(inp)) =>
        LET dates == out.l.market_days
            n == Len(dates)
        IN  /\ n = days_to_expiry(inp)
            /\ n > 0
            /\ DOMAIN dates = 1 .. n
            /\ DOMAIN out.l.option_value = 1 .. n
            /\ DOMAIN out.l.estimated_pnl = 1 .. n
            /\ DOMAIN out.l.pnl_percentage = 1 .. n
            /\ \A t \in 1 .. Len(out.pnl_fig.traces) :
                  /\ out.pnl_fig.traces[t].x = dates
                  /\ DOMAIN out.pnl_fig.traces[t].y = 1 .. n
            /\ IsoFormat(dates[1]) = inp.date_purchased
            /\ \A i \in 1 .. n - 1 :
                  /\ dates[i + 1] = NextDay(dates[i])
                  /\ DateLt(dates[i], dates[i + 1])
            /\ IsoFormat(NextDay(dates[n])) = inp.expiry_date

\* a valid evaluation whose dates run over the end of a month
C5_Witness ==
    /\ Returned /\ Valid(inp)
    /\ \E i \in DOMAIN out.l.market_days :
          /\ i + 1 \in DOMAIN out.l.market_days
          /\ out.l.market_days[i].m # out.l.market_days[i + 1].m

\* C6: for valid inputs with premium > 0, on every day the dollar P&L is
\* option_value * total_contracts - premium * total_contracts and the percent
\* P&L is the dollar P&L / (premium * total_contracts) * 100, with
\* total_contracts = contract_size * 100 throughout.
C6_PnlFormulas ==
    (Returned /\ Valid(inp) /\ inp.premium.n > 0) =>
        LET tc == RMul(inp.contract_size, RInt(100))
            paid == RMul(inp.premium, tc)
        IN  /\ out.l.total_contracts = tc
            /\ \A i \in DOMAIN out.l.estimated_pnl :
                  /\ out.l.estimated_pnl[i] = RSub(RMul(out.l.option_value[i], tc), paid)
                  /\ IsFinite(out.l.pnl_percentage[i])
                  /\ RMul(out.l.pnl_percentage[i], paid)
                        = RMul(out.l.estimated_pnl[i], RInt(100))

\* a valid evaluation with a positive premium, more than one contract and a
\* loss on some day
C6_Witness ==
    /\ Returned /\ Valid(inp) /\ inp.premium.n > 0
    /\ inp.contract_size = RInt(2)
    /\ \E i \in DOMAIN out.l.estimated_pnl :
          /\ out.l.estimated_pnl[i].n < 0
          /\ out.l.pnl_percentage[i].n < 0

\* C7: adjusted_price is underlying * (1 + pct/100); the intrinsic value of a
\* call is 0 when adjusted_price <= underlying and adjusted_price - underlying
\* above it, that of a put is 0 when adjusted_price >= underlying and
\* underlying - adjusted_price below it; it is never negative, and it is the
\* one value that floors the option value of every day.
C7_IntrinsicValue ==
    (Returned /\ ~IsNone(inp, "option_type")) =>
        LET adj == out.l.adjusted_price
            u == inp.underlying
            iv == out.l.intrinsic_value
        IN  /\ RMul(adj, RInt(100)) = RMul(u, RAdd(RInt(100), inp.hypo_change))
            /\ iv.n >= 0
            /\ inp.option_type = "call" =>
                  /\ RLe(adj, u) => iv = Zero
                  /\ RLt(u, adj) => RAdd(iv, u) = adj
            /\ inp.option_type = "put" =>
                  /\ RLe(u, adj) => iv = Zero
                  /\ RLt(adj, u) => RAdd(iv, adj) = u
            /\ \A i \in DOMAIN out.l.option_value :
                  out.l.option_value[i] = RMax(iv, out.l.extrinsic_value[i])

\* a call evaluated above the purchase price, with a positive intrinsic value
C7_Witness ==
    /\ Returned
    /\ inp.option_type = "call"
    /\ RLt(inp.underlying, out.l.adjusted_price)
    /\ out.l.intrinsic_value.n > 0
    /\ out.l.option_value # <<>>

\* the series of a frame
Series(f) ==
    [dates |-> f.l.market_days, option_value |-> f.l.option_value,
     pnl_dollars |-> f.l.estimated_pnl, pnl_percent |-> f.l.pnl_percentage]

\* C8: under every interleaving of two requests, the result of each is the
\* result its own inputs yield when evaluated alone, and two requests with
\* equal inputs return equal series and equal P&L figures.
C8_RequestsIndependent ==
    /\ \A s \in Slots :
          req[s].f.pc = "returned" =>
              \E fetch_ok \in BOOLEAN : req[s].f = update_graph(req[s].inp, fetch_ok)
    /\ \A s, t \in Slots :
          (req[s].f.pc = "returned" /\ req[t].f.pc = "returned"
             /\ req[s].inp = req[t].inp) =>
                /\ Series(req[s].f) = Series(req[t].f)
                /\ req[s].f.pnl_fig = req[t].f.pnl_fig
                /\ req[s].f.display = req[t].f.display

\* two requests with equal inputs, both returned with a series
C8_Witness ==
    /\ req[1].f.pc = "returned" /\ req[2].f.pc = "returned"
    /\ req[1].inp = req[2].inp
    /\ req[1].f.l.estimated_pnl # <<>>

\* C9 as stated: over the valid inputs the dollar P&L both rises somewhere
\* and falls somewhere.
C9_RisesAndFalls == sweep.done => (sweep.rose /\ sweep.fell)

\* C9 as amended: over the valid inputs the dollar P&L never rises from one
\* day to the next, and for some valid input it falls.
C9_NeverRisesSometimesFalls ==
    /\ (Returned /\ Valid(inp)) => ~Rises(out.l.estimated_pnl)
    /\ ~sweep.rose
    /\ sweep.done => sweep.fell

\* the sweep is over and a valid input made the dollar P&L fall
C9_Witness == sweep.done /\ sweep.fell /\ sweep.k = SweepSize

\* a and b agree on every input but delta and theta
SameButGreeks(a, b) == [a EXCEPT !.delta = b.delta, !.theta = b.theta] = b

\* C10: two evaluations that differ only in delta and theta return the same
\* dates, option values, dollar P&L and percent P&L.
C10_GreeksIgnored ==
    \A s, t \in Slots :
        (req[s].f.pc = "returned" /\ req[t].f.pc = "returned"
           /\ SameButGreeks(req[s].inp, req[t].inp)) =>
              /\ Series(req[s].f) = Series(req[t].f)
              /\ req[s].f.pnl_fig = req[t].f.pnl_fig

\* two returned requests that differ in delta and in theta, in sign and size
C10_Witness ==
    /\ req[1].f.pc = "returned" /\ req[2].f.pc = "returned"
    /\ SameButGreeks(req[1].inp, req[2].inp)
    /\ req[1].inp.delta.n > 0 /\ req[2].inp.delta.n < 0
    /\ req[1].inp.theta.n > 0 /\ req[2].inp.theta.n < 0
    /\ RAbs(req[1].inp.theta) # RAbs(req[2].inp.theta)
    /\ req[1].inp.premium.n > 0
    /\ Len(req[1].f.l.estimated_pnl) > 1

====
